---- MODULE Spec2Model ----
(***************************************************************************)
(* Model of the TDL traceability engine (plugins/tdl/scripts/              *)
(* trace_status.py): the document parser, the task synthesizer, the        *)
(* traceability analyzer, the scanner, the two renderers and main; and of  *)
(* the create_* commands with the ID generator (tdl_new_id.py).            *)
(*                                                                         *)
(* Text is modelled at the granularity the regular expressions of the      *)
(* source observe it.  A file is a sequence of lines; a line is a          *)
(* top-level title ("# x"), a section heading ("## x") or a bolded-label   *)
(* line ("- **Label**: value"); a value is a sequence of tokens separated  *)
(* by blanks; a token either matches ID_PATTERN (kind "id", with the       *)
(* prefix and the suffix as spelled in the text) or is another word.       *)
(* Labels, headings and words of the alphabet contain no ID_PATTERN match. *)
(***************************************************************************)
EXTENDS Integers, Sequences, FiniteSets, TLC

VARIABLES pc, file, doc, task_dir, design_doc, plan_doc, task_doc,
          documents, report, docs_dir, args, output, exit_code,
          disk, command

vars == <<pc, file, doc, task_dir, design_doc, plan_doc, task_doc,
          documents, report, docs_dir, args, output, exit_code,
          disk, command>>

\* the variables of main: the docs directory, the command line, the lines
\* printed on standard output and the exit status
mainVars == <<docs_dir, args, output, exit_code>>

\* the variables of the create_* commands: the entries below docs/ and the
\* state of each running command
createVars == <<disk, command>>

(***************************************************************************)
(* Bounds of the model.                                                    *)
(***************************************************************************)
\* longest value of a bolded-label line, in tokens
MaxValueLen == 2
\* most bolded-label lines in the Links section of a parsed file
MaxLinkLines == 2
\* most bolded-label lines in the Links section of design.md / plan.md
MaxTaskLinkLines == 2
\* longest document list handed to the analyzer
MaxDocs == 3

(***************************************************************************)
(* Optional values: Python's None and a present value.                     *)
(***************************************************************************)
None == <<>>

Some(x) == <<x>>

\* the command line without options, as argparse fills it
DefaultArgs == [check |-> FALSE, format |-> "text"]

\* main is not run
MainIdle ==
    /\ docs_dir = None
    /\ args = DefaultArgs
    /\ output = <<>>
    /\ exit_code = None

\* no create_* command is run
CreateIdle ==
    /\ disk = {}
    /\ command = <<>>

\* all sequences over S with at most n elements
SeqUpTo(S, n) == UNION {[1..k -> S] : k \in 0..n}

(***************************************************************************)
(* dict: a function from its keys to their values.                         *)
(***************************************************************************)
EmptyDict == [k \in {} |-> <<>>]

\* d[k] = v
Put(d, k, v) == [x \in (DOMAIN d) \cup {k} |-> IF x = k THEN v ELSE d[x]]

\* d.get(k, default)
Get(d, k, default) == IF k \in DOMAIN d THEN d[k] ELSE default

(***************************************************************************)
(* Tokens and lines.                                                       *)
(***************************************************************************)
Word(w) == [t |-> "word", pre |-> w, suf |-> ""]

IdTok(p, s) == [t |-> "id", pre |-> p, suf |-> s]

\* the token a "not applicable" value of the templates starts with
NA == Word("N/A")

TokText(k) == IF k.t = "id" THEN k.pre \o "-" \o k.suf ELSE k.pre

RECURSIVE JoinText(_)
JoinText(value) ==
    IF value = <<>> THEN ""
    ELSE IF Len(value) = 1 THEN TokText(value[1])
    ELSE TokText(value[1]) \o " " \o JoinText(Tail(value))

H1(text) == [kind |-> "h1", text |-> text, value |-> <<>>]

H2(text) == [kind |-> "h2", text |-> text, value |-> <<>>]

\* the line "- **label**: value"; the blank after the colon is there also
\* when the value is empty, as in the templates
Field(label, value) == [kind |-> "field", text |-> label, value |-> value]

LineText(l) ==
    CASE l.kind = "h1" -> "# " \o l.text
      [] l.kind = "h2" -> "## " \o l.text
      [] OTHER -> "- **" \o l.text \o "**: " \o JoinText(l.value)

(***************************************************************************)
(* str.upper(), str.lower(), str.strip() and str.startswith() on the       *)
(* strings of the alphabet.                                                *)
(***************************************************************************)
upper(s) ==
    CASE s = "an" -> "AN"
      [] s = "fr" -> "FR"
      [] s = "nfr" -> "NFR"
      [] s = "adr" -> "ADR"
      [] s = "t" -> "T"
      [] s = "an-" -> "AN-"
      [] s = "fr-" -> "FR-"
      [] s = "nfr-" -> "NFR-"
      [] s = "adr-" -> "ADR-"
      [] s = "t-" -> "T-"
      [] s = "Status" -> "STATUS"
      [] s = "status" -> "STATUS"
      [] s = "Adr" -> "ADR"
      [] s = "ADR (Lite)" -> "ADR (LITE)"
      [] s = "Design" -> "DESIGN"
      [] s = "Plan" -> "PLAN"
      [] OTHER -> s

lower(s) ==
    CASE s = "AAAAA" -> "aaaaa"
      [] s = "BBBBB" -> "bbbbb"
      [] s = "CCCCC" -> "ccccc"
      [] s = "DDDDD" -> "ddddd"
      [] s = "XXXXX" -> "xxxxx"
      [] s = "EEEEE" -> "eeeee"
      [] OTHER -> s

strip(s) ==
    CASE s = " Requirements " -> "Requirements"
      [] s = " " -> ""
      [] s = "Draft " -> "Draft"
      [] OTHER -> s

\* s.startswith(p), for the two prefixes the parser tests content against
startswith(s, p) ==
    CASE p = "ADR" -> s \in {"ADR", "ADR (LITE)"}
      [] p = "N/A" -> s = "N/A"
      [] OTHER -> s = p

(***************************************************************************)
(* File names.  text is the name; head is its text up to and including     *)
(* the first "-" ("" when it has none); toks are its tokens.               *)
(***************************************************************************)
Name(text, head, toks) == [text |-> text, head |-> head, toks |-> toks]

TYPE_PREFIXES == <<"AN-", "FR-", "NFR-", "ADR-", "T-">>

TypeOfPrefix(p) ==
    CASE p = "AN-" -> "Analysis"
      [] p = "FR-" -> "Functional Requirement"
      [] p = "NFR-" -> "Non-Functional Requirement"
      [] p = "ADR-" -> "ADR"
      [] p = "T-" -> "Task"

\* every prefix ends with the only "-" it contains, so the upper-cased name
\* starts with a prefix exactly when its upper-cased head is that prefix
extract_document_type(filename) ==
    LET hits == SelectSeq(TYPE_PREFIXES, LAMBDA p : upper(filename.head) = p)
    IN  IF hits = <<>> THEN None ELSE Some(TypeOfPrefix(hits[1]))

\* an ID kept as the text spells it
NormIdAsWritten(k) == k.pre \o "-" \o k.suf

\* f"{match.group(1).upper()}-{match.group(2).lower()}"
NormId(k) == upper(k.pre) \o "-" \o lower(k.suf)

\* ID_PATTERN.findall(text), on the tokens of the text
findall(toks) == SelectSeq(toks, LAMBDA k : k.t = "id")

\* ID_PATTERN.search(text), normalized
extract_id(toks) ==
    LET found == findall(toks)
    IN  IF found = <<>> THEN None ELSE Some(NormId(found[1]))

normalize_doc_type(doc_type) ==
    LET normalized == strip(doc_type)
    IN  IF startswith(upper(normalized), "ADR") THEN "ADR" ELSE normalized

(***************************************************************************)
(* Sections and bolded-label lines.                                        *)
(***************************************************************************)
Min(S) == CHOOSE i \in S : \A j \in S : i <= j

\* where "## name" is first found; 0 when it is not
HeadingIndex(lines, name) ==
    LET hits == {i \in 1..Len(lines) :
                    lines[i].kind = "h2" /\ lines[i].text = name}
    IN  IF hits = {} THEN 0 ELSE Min(hits)

\* group(1) of r"## name\s*\n(.*?)(?=\n## |\Z)" with re.DOTALL.  The group
\* starts at the line after the heading and the lookahead needs a newline
\* before "## ", so the line after the heading belongs to the group whatever
\* it is; the group ends before the next "## " line after that one.
SectionBody(lines, name) ==
    LET i == HeadingIndex(lines, name)
        ends == {k \in (i + 2)..Len(lines) : lines[k].kind = "h2"}
        last == IF ends = {} THEN Len(lines) ELSE Min(ends) - 1
    IN  IF i = 0 THEN None ELSE Some(SubSeq(lines, i + 1, last))

\* one match of r"\*\*([^*]+)\*\*:\s*(.+)": key is group(1); text is
\* group(2), first its first word and toks its tokens
Match(key, text, first, toks) ==
    [key |-> key, text |-> text, first |-> first, toks |-> toks]

\* group(2) of the match at the bolded-label line l that `rest` follows.
\* "\s*" also runs over newlines: after a label with an empty value, (.+)
\* is the whole next line, and that line is consumed by the match; on the
\* last line (.+) is the blank after the colon.
MatchAt(l, rest) ==
    IF l.value # <<>>
    THEN Match(l.text, JoinText(l.value), TokText(l.value[1]), l.value)
    ELSE IF rest = <<>>
    THEN Match(l.text, " ", "", <<>>)
    ELSE Match(l.text, LineText(Head(rest)), "-", Head(rest).value)

\* LINK_PATTERN.finditer(text) and METADATA_PATTERN.finditer(text)
RECURSIVE finditer(_)
finditer(lines) ==
    IF lines = <<>> THEN <<>>
    ELSE LET l == Head(lines)
             rest == Tail(lines)
         IN  IF l.kind # "field" THEN finditer(rest)
             ELSE IF l.value = <<>> /\ rest # <<>>
             THEN <<MatchAt(l, rest)>> \o finditer(Tail(rest))
             ELSE <<MatchAt(l, rest)>> \o finditer(rest)

\* a metadata value: the string and the tokens of it
MetaValue(text, toks) == [text |-> text, toks |-> toks]

NoValue == MetaValue("", <<>>)

RECURSIVE MetadataLoop(_, _)
MetadataLoop(matches, metadata) ==
    IF matches = <<>> THEN metadata
    ELSE LET m == Head(matches)
         IN  MetadataLoop(Tail(matches),
                 Put(metadata, strip(m.key), MetaValue(strip(m.text), m.toks)))

parse_metadata_section(content) ==
    LET metadata_match == SectionBody(content, "Metadata")
    IN  IF metadata_match = None THEN EmptyDict
        ELSE MetadataLoop(finditer(metadata_match[1]), EmptyDict)

\* [f"{prefix.upper()}-{id_part.lower()}" for prefix, id_part in found_ids]
NormIds(found_ids) == [i \in 1..Len(found_ids) |-> NormId(found_ids[i])]

\* one iteration of the loop over the matches of the Links section
LinkStep(links, m) ==
    LET link_type == strip(m.key)
        found_ids == findall(m.toks)
    IN  IF startswith(m.first, "N/A") THEN links
        ELSE IF found_ids = <<>> THEN links
        ELSE Put(links, link_type, NormIds(found_ids))

RECURSIVE LinksLoop(_, _)
LinksLoop(matches, links) ==
    IF matches = <<>> THEN links
    ELSE LinksLoop(Tail(matches), LinkStep(links, Head(matches)))

parse_links_section(content) ==
    LET links_match == SectionBody(content, "Links")
    IN  IF links_match = None THEN EmptyDict
        ELSE LinksLoop(finditer(links_match[1]), EmptyDict)

\* STATUS_PATTERN.search(content): group(1) of the first "**Status**:" line
\* in any letter case, anywhere in the text
StatusSearch(lines) ==
    LET hits == {i \in 1..Len(lines) :
                    lines[i].kind = "field" /\ upper(lines[i].text) = "STATUS"}
    IN  IF hits = {} THEN None
        ELSE Some(MatchAt(lines[Min(hits)],
                          SubSeq(lines, Min(hits) + 1, Len(lines))).text)

\* re.search(r"^#\s+(.+)$", content, re.MULTILINE)
TitleSearch(lines) ==
    LET hits == {i \in 1..Len(lines) : lines[i].kind = "h1"}
    IN  IF hits = {} THEN None ELSE Some(lines[Min(hits)].text)

(***************************************************************************)
(* Document and parse_document.                                            *)
(***************************************************************************)
Document(id, doc_type, title, path, status, links, raw_content) ==
    [id |-> id, doc_type |-> doc_type, title |-> title, path |-> path,
     status |-> status, links |-> links, raw_content |-> raw_content]

\* a file as read_text sees it: unreadable (missing, undecodable), or lines
Unreadable == [readable |-> FALSE, lines |-> <<>>]

Text(lines) == [readable |-> TRUE, lines |-> lines]

File(name, content) == [name |-> name, content |-> content]

DocStatus(content, metadata) ==
    LET status == Get(metadata, "Status", NoValue).text
        status_match == StatusSearch(content)
    IN  IF status # "" THEN strip(status)
        ELSE IF status_match # None THEN strip(status_match[1])
        ELSE "Unknown"

\* an ID resolution that asks the Metadata first and the name second
DocIdMetadataFirst(filename, metadata) ==
    LET doc_id == extract_id(Get(metadata, "ID", NoValue).toks)
    IN  IF doc_id = None THEN extract_id(filename.toks) ELSE doc_id

\* doc_id = extract_id(filename); if not doc_id: doc_id = extract_id(
\* metadata.get("ID", ""))
DocId(filename, metadata) ==
    LET doc_id == extract_id(filename.toks)
    IN  IF doc_id = None THEN extract_id(Get(metadata, "ID", NoValue).toks)
        ELSE doc_id

\* a type resolution that takes the Metadata Type as it is written
DocTypeAsWritten(filename, metadata) ==
    LET doc_type == extract_document_type(filename)
        metadata_type == Get(metadata, "Type", NoValue).text
    IN  IF doc_type = None /\ metadata_type # "" THEN Some(metadata_type)
        ELSE doc_type

\* doc_type = extract_document_type(filename); if not doc_type: the
\* normalized Metadata Type when there is one
DocType(filename, metadata) ==
    LET doc_type == extract_document_type(filename)
        metadata_type == Get(metadata, "Type", NoValue).text
    IN  IF doc_type = None /\ metadata_type # ""
        THEN Some(normalize_doc_type(metadata_type))
        ELSE doc_type

\* a parser whose Document retains no content
parse_documentWithoutContent(filepath) ==
    IF ~filepath.content.readable THEN None
    ELSE LET content == filepath.content.lines
             filename == filepath.name
             metadata == parse_metadata_section(content)
             doc_type == DocType(filename, metadata)
             doc_id == DocId(filename, metadata)
             title_match == TitleSearch(content)
             title == IF title_match # None THEN title_match[1]
                      ELSE filename.text
         IN  IF doc_type = None \/ doc_id = None THEN None
             ELSE Some(Document(doc_id[1], doc_type[1], title, filename.text,
                                DocStatus(content, metadata),
                                parse_links_section(content), <<>>))

parse_document(filepath) ==
    IF ~filepath.content.readable THEN None
    ELSE LET content == filepath.content.lines
             filename == filepath.name
             metadata == parse_metadata_section(content)
             doc_type == DocType(filename, metadata)
             doc_id == DocId(filename, metadata)
             title_match == TitleSearch(content)
             title == IF title_match # None THEN title_match[1]
                      ELSE filename.text
         IN  IF doc_type = None \/ doc_id = None THEN None
             ELSE Some(Document(doc_id[1], doc_type[1], title, filename.text,
                                DocStatus(content, metadata),
                                parse_links_section(content), content))

(***************************************************************************)
(* TraceabilityReport.  coverage_percent is the exact quotient num / den.  *)
(***************************************************************************)
Ratio(num, den) == [num |-> num, den |-> den]

TraceabilityReport ==
    [total_documents |-> 0, analyses |-> <<>>, requirements |-> <<>>,
     adrs |-> <<>>, tasks |-> <<>>, orphan_requirements |-> <<>>,
     orphan_tasks |-> <<>>, missing_links |-> <<>>,
     coverage_percent |-> Ratio(0, 1)]

(***************************************************************************)
(* The files the parser is run on.                                         *)
(***************************************************************************)
ReqA == IdTok("FR", "aaaaa")

\* "fr-BBBBB" is FR-bbbbb spelled in the other letter case
ReqB == IdTok("fr", "BBBBB")

TaskId == IdTok("T", "ccccc")

LinkTokens == {NA, ReqA, ReqB}

LinkLabels == {"Requirements", "Related ADRs", " Requirements "}

LinkValues == SeqUpTo(LinkTokens, MaxValueLen)

LinkLines == {Field(l, v) : l \in LinkLabels, v \in LinkValues}

FullMetadata ==
    <<Field("ID", <<IdTok("T", "ccccc")>>), Field("Type", <<Word("Design")>>),
      Field("Status", <<Word("Draft")>>)>>

\* the layout the create_* templates write: title, Metadata, Links, body
Layout(title, metadata, links) ==
    <<H1(title), H2("Metadata")>> \o metadata \o <<H2("Links")>> \o links
        \o <<H2("Summary")>>

DesignName == Name("design.md", "", <<Word("design.md")>>)

PlanName == Name("plan.md", "", <<Word("plan.md")>>)

RequirementName ==
    Name("FR-aaaaa-login.md", "FR-", <<ReqA, Word("-login.md")>>)

ParseNames == {DesignName, RequirementName}

ParseFiles ==
    {File(n, Text(Layout("Login", m, ls))) :
        n \in ParseNames, m \in {FullMetadata, <<>>},
        ls \in SeqUpTo(LinkLines, MaxLinkLines)}
    \cup {File(n, Unreadable) : n \in ParseNames}

\* names with and without a type prefix, with and without an ID: a prefix
\* and no ID, an ID behind another head, a prefix and an ID in lower case
PrefixOnlyName == Name("FR-api.md", "FR-", <<Word("FR-api.md")>>)

IdOnlyName ==
    Name("notes-ADR-eeeee.md", "notes-",
         <<Word("notes-"), IdTok("ADR", "eeeee"), Word(".md")>>)

LowerCaseName ==
    Name("adr-EEEEE-cache.md", "adr-",
         <<IdTok("adr", "EEEEE"), Word("-cache.md")>>)

IdentityNames ==
    {DesignName, RequirementName, PrefixOnlyName, IdOnlyName, LowerCaseName}

\* values of the Metadata ID line: an ID, no ID, an ID after another word
MetadataIdValues ==
    {<<IdTok("T", "ccccc")>>, <<Word("TBD")>>,
     <<Word("see"), IdTok("nfr", "BBBBB")>>}

\* values of the Metadata Type line, as the templates and a hand write them
MetadataTypeValues == {"Design", "ADR", "ADR (Lite)", "adr"}

\* no line, or one of the lines
Optional(lines) == {<<>>} \cup {<<l>> : l \in lines}

IdentityMetadata ==
    {i \o t \o <<Field("Status", <<Word("Draft")>>)>> :
        i \in Optional({Field("ID", v) : v \in MetadataIdValues}),
        t \in Optional({Field("Type", <<Word(v)>>) : v \in MetadataTypeValues})}

IdentityFiles ==
    {File(n, Text(Layout("Login", m, <<>>))) :
        n \in IdentityNames, m \in IdentityMetadata}

\* the Status line of Metadata: a value, a value with a blank behind it,
\* the label in lower case, an empty value, no line
StatusLines ==
    Optional({Field("Status", <<Word("Draft")>>),
              Field("Status", <<Word("Draft ")>>),
              Field("status", <<Word("Draft")>>), Field("Status", <<>>)})

\* Metadata as the templates write it, Status before Date
StatusMetadata ==
    {<<Field("ID", <<TaskId>>), Field("Type", <<Word("Design")>>)>> \o st \o d :
        st \in StatusLines,
        d \in Optional({Field("Date", <<Word("2024-01-01")>>)})}

\* with or without a "**Status**:" line in the text after the sections
StatusFiles ==
    {File(n, Text(Layout("Cache", m, <<Field("Requirements", <<ReqA>>)>>) \o st)) :
        n \in ParseNames, m \in StatusMetadata,
        st \in Optional({Field("Status", <<Word("Approved")>>)})}

NoFile == File(DesignName, Unreadable)

NoTaskDir == [name |-> DesignName, is_dir |-> FALSE,
              design |-> Unreadable, plan |-> Unreadable]

(***************************************************************************)
(* SpecParse: parse_document applied to one file.                          *)
(***************************************************************************)
InitParse ==
    /\ pc = "parse"
    /\ file \in ParseFiles
    /\ doc = None
    /\ task_dir = NoTaskDir
    /\ design_doc = None
    /\ plan_doc = None
    /\ task_doc = None
    /\ documents = <<>>
    /\ report = TraceabilityReport
    /\ MainIdle
    /\ CreateIdle

ParseDocument ==
    /\ pc = "parse"
    /\ doc' = parse_document(file)
    /\ pc' = "parsed"
    /\ UNCHANGED <<file, task_dir, design_doc, plan_doc, task_doc, documents,
                   report>>
    /\ UNCHANGED mainVars
    /\ UNCHANGED createVars

NextParse == ParseDocument

SpecParse == InitParse /\ [][NextParse]_vars

(***************************************************************************)
(* The task synthesizer: merge_links and build_task_document.              *)
(***************************************************************************)
Range(s) == {s[i] : i \in 1..Len(s)}

\* a merge that appends every ID, also one the bucket already holds
MergeIdsKeepingDuplicates(bucket, ids) == bucket \o ids

\* for link_id in ids: if link_id not in bucket: bucket.append(link_id)
RECURSIVE MergeIds(_, _)
MergeIds(bucket, ids) ==
    IF ids = <<>> THEN bucket
    ELSE MergeIds(IF Head(ids) \in Range(bucket) THEN bucket
                  ELSE Append(bucket, Head(ids)),
                  Tail(ids))

\* the dict `target` after merge_links(target, source); each key of source
\* is merged into its own bucket
merge_links(target, source) ==
    [key \in (DOMAIN target) \cup (DOMAIN source) |->
        IF key \in DOMAIN source
        THEN MergeIds(Get(target, key, <<>>), source[key])
        ELSE target[key]]

\* a resolution that takes the plan's status also when it is "Unknown"
TaskStatusPlanAlways(design, plan) ==
    IF plan # None THEN plan[1].status
    ELSE IF design # None THEN design[1].status
    ELSE "Unknown"

\* the status build_task_document settles on
TaskStatus(design, plan) ==
    LET status == IF design # None THEN design[1].status ELSE "Unknown"
    IN  IF plan # None /\ plan[1].status # "Unknown" THEN plan[1].status
        ELSE status

\* the links build_task_document settles on
TaskLinks(design, plan) ==
    LET links == IF design # None THEN merge_links(EmptyDict, design[1].links)
                 ELSE EmptyDict
    IN  IF plan # None THEN merge_links(links, plan[1].links) ELSE links

\* a directory entry of docs/tasks with what design.md and plan.md hold
TaskDir(name, is_dir, design, plan) ==
    [name |-> name, is_dir |-> is_dir, design |-> design, plan |-> plan]

\* a check that takes a plain file for a task directory
TaskEntryIdOfAnyEntry(dir) ==
    IF upper(dir.name.head) # "T-" THEN None ELSE extract_id(dir.name.toks)

\* the checks before anything is read: the ID of the entry, None when
\* it is no directory, its name has no "T-" prefix or holds no ID
TaskEntryId(dir) ==
    IF ~(dir.is_dir /\ upper(dir.name.head) = "T-") THEN None
    ELSE extract_id(dir.name.toks)

\* the Document build_task_document returns for a task entry
build_task_document(dir, design, plan) ==
    Document(TaskEntryId(dir)[1], "Task", dir.name.text, dir.name.text,
             TaskStatus(design, plan), TaskLinks(design, plan), <<>>)

(***************************************************************************)
(* The task directories the synthesizer is run on.                         *)
(***************************************************************************)
AdrD == IdTok("ADR", "ddddd")

TaskLinkLines ==
    {Field("Requirements", <<ReqA>>), Field("Requirements", <<ReqB, ReqA>>),
     Field("Requirements", <<ReqA, ReqA>>), Field("Related ADRs", <<AdrD>>)}

TaskMetadata ==
    {<<Field("ID", <<TaskId>>), Field("Type", <<Word("Design")>>),
       Field("Status", <<Word(st)>>)>> : st \in {"Draft", "Complete", "Unknown"}}
    \cup {<<Field("ID", <<TaskId>>), Field("Type", <<Word("Design")>>)>>,
          <<Field("Type", <<Word("Design")>>),
            Field("Status", <<Word("Draft")>>)>>}

TaskFiles ==
    {Text(Layout("Cache", m, <<Field("Requirements", <<ReqA>>)>>)) :
        m \in TaskMetadata}
    \cup {Text(Layout("Cache", FullMetadata, ls)) :
            ls \in SeqUpTo(TaskLinkLines, MaxTaskLinkLines)}
    \cup {Unreadable}

\* the third name holds another ID than the Metadata of design.md / plan.md
TaskNames ==
    {Name("T-ccccc-cache", "T-", <<TaskId, Word("-cache")>>),
     Name("t-CCCCC-cache", "t-", <<IdTok("t", "CCCCC"), Word("-cache")>>),
     Name("T-ddddd-api", "T-", <<IdTok("T", "ddddd"), Word("-api")>>)}

\* entries of docs/tasks that are no task: a name without an ID, a name
\* without the prefix, a plain file
OtherEntries ==
    {TaskDir(Name("T-old", "T-", <<Word("T-old")>>), TRUE, f, Unreadable) :
        f \in TaskFiles}
    \cup {TaskDir(Name("archive", "", <<Word("archive")>>), TRUE, Unreadable,
                  Unreadable),
          TaskDir(Name("T-ccccc-notes.md", "T-", <<TaskId, Word("-notes.md")>>),
                  FALSE, Unreadable, Unreadable)}

TaskDirs ==
    {TaskDir(n, TRUE, d, p) : n \in TaskNames, d \in TaskFiles, p \in TaskFiles}
    \cup OtherEntries

(***************************************************************************)
(* SpecFields: parse_document applied to one file of the families that     *)
(* vary the name, the Metadata lines, the place of the Status line and     *)
(* the Links section; a parsed file is then parsed again from the content  *)
(* its Document retains.                                                   *)
(***************************************************************************)
\* the files of a task directory, under a name with and without a prefix
LinkedFiles == {File(n, c) : n \in ParseNames, c \in TaskFiles}

FieldFiles == IdentityFiles \cup StatusFiles \cup LinkedFiles

InitFields ==
    /\ pc = "parse"
    /\ file \in FieldFiles
    /\ doc = None
    /\ task_dir = NoTaskDir
    /\ design_doc = None
    /\ plan_doc = None
    /\ task_doc = None
    /\ documents = <<>>
    /\ report = TraceabilityReport
    /\ MainIdle
    /\ CreateIdle

\* the retained content is written back under the same name and parsed
ReparseDocument ==
    /\ pc = "parsed"
    /\ doc # None
    /\ file' = File(file.name, Text(doc[1].raw_content))
    /\ doc' = parse_document(file')
    /\ pc' = "reparsed"
    /\ UNCHANGED <<task_dir, design_doc, plan_doc, task_doc, documents, report>>
    /\ UNCHANGED mainVars
    /\ UNCHANGED createVars

NextFields == ParseDocument \/ ReparseDocument

SpecFields == InitFields /\ [][NextFields]_vars

(***************************************************************************)
(* SpecTask: build_task_document applied to one entry of docs/tasks.       *)
(* design_doc and plan_doc are read only when the entry is a task.         *)
(***************************************************************************)
InitTask ==
    /\ pc = "build"
    /\ file = NoFile
    /\ doc = None
    /\ task_dir \in TaskDirs
    /\ design_doc = None
    /\ plan_doc = None
    /\ task_doc = None
    /\ documents = <<>>
    /\ report = TraceabilityReport
    /\ MainIdle
    /\ CreateIdle

\* not a directory, no "T-" prefix or no ID in the name: no Document
SkipEntry ==
    /\ pc = "build"
    /\ TaskEntryId(task_dir) = None
    /\ pc' = "built"
    /\ UNCHANGED <<file, doc, task_dir, design_doc, plan_doc, task_doc,
                   documents, report>>
    /\ UNCHANGED mainVars
    /\ UNCHANGED createVars

BuildTaskDocument ==
    /\ pc = "build"
    /\ TaskEntryId(task_dir) # None
    /\ design_doc' = parse_document(File(DesignName, task_dir.design))
    /\ plan_doc' = parse_document(File(PlanName, task_dir.plan))
    /\ task_doc' = Some(build_task_document(task_dir, design_doc', plan_doc'))
    /\ pc' = "built"
    /\ UNCHANGED <<file, doc, task_dir, documents, report>>
    /\ UNCHANGED mainVars
    /\ UNCHANGED createVars

NextTask == SkipEntry \/ BuildTaskDocument

SpecTask == InitTask /\ [][NextTask]_vars

(***************************************************************************)
(* Properties of the task synthesizer, checked under SpecTask.             *)
(***************************************************************************)
\* the elements of s, each once, in the order of their first occurrence
RECURSIVE FirstOccurrences(_)
FirstOccurrences(s) ==
    IF s = <<>> THEN <<>>
    ELSE LET front == SubSeq(s, 1, Len(s) - 1)
             last == s[Len(s)]
         IN  IF last \in Range(front) THEN FirstOccurrences(front)
             ELSE Append(FirstOccurrences(front), last)

\* the link map of a parsed file; a file that yields no Document has none
LinksOf(d) == IF d = None THEN EmptyDict ELSE d[1].links

Built == pc = "built" /\ task_doc # None

\* C9: the links of the synthesized task are the union of the link maps of
\* design.md and plan.md: the categories are those of either file, and each
\* list is design's IDs followed by the plan's IDs not yet present, every ID
\* once, in the order of first occurrence.
C9_TaskLinksAreMergedUnion ==
    Built =>
        LET d == LinksOf(design_doc)
            p == LinksOf(plan_doc)
            links == task_doc[1].links
        IN  /\ DOMAIN links = (DOMAIN d) \cup (DOMAIN p)
            /\ \A k \in DOMAIN links :
                  links[k] = FirstOccurrences(Get(d, k, <<>>) \o Get(p, k, <<>>))

\* both files parse, share a category in which the plan repeats one ID of
\* the design and adds another, and one category is in one file only
C9_Witness ==
    /\ Built
    /\ design_doc # None
    /\ plan_doc # None
    /\ DOMAIN LinksOf(design_doc) # DOMAIN LinksOf(plan_doc)
    /\ \E k \in (DOMAIN LinksOf(design_doc)) \cap (DOMAIN LinksOf(plan_doc)) :
          /\ Range(plan_doc[1].links[k]) \cap Range(design_doc[1].links[k]) # {}
          /\ Range(plan_doc[1].links[k]) \ Range(design_doc[1].links[k]) # {}
          /\ Len(task_doc[1].links[k]) = 2

PlanDecides == plan_doc # None /\ plan_doc[1].status # "Unknown"

\* C10: the task's status is the plan's whenever plan.md parses with a
\* status other than "Unknown"; otherwise the design's when design.md
\* parses; "Unknown" when neither parses; a design.md of status "Draft"
\* without a plan.md gives "Draft".
C10_TaskStatusResolution ==
    Built =>
        /\ PlanDecides => task_doc[1].status = plan_doc[1].status
        /\ (~PlanDecides /\ design_doc # None) =>
              task_doc[1].status = design_doc[1].status
        /\ (plan_doc = None /\ design_doc = None) =>
              task_doc[1].status = "Unknown"
        /\ (task_dir.plan = Unreadable /\ design_doc # None
               /\ design_doc[1].status = "Draft") =>
              task_doc[1].status = "Draft"

\* design.md of status "Draft" and no plan.md
C10_Witness ==
    /\ Built
    /\ task_dir.plan = Unreadable
    /\ design_doc # None
    /\ design_doc[1].status = "Draft"
    /\ task_doc[1].status = "Draft"

\* the positions of the ID_PATTERN matches in a name
IdPositions(name) == {i \in 1..Len(name.toks) : name.toks[i].t = "id"}

\* a directory, named "T-..." in either letter case, with an ID in the name
IsTaskEntry(dir) ==
    /\ dir.is_dir
    /\ dir.name.head \in {"T-", "t-"}
    /\ IdPositions(dir.name) # {}

REQUIREMENT_TYPES == {"Functional Requirement", "Non-Functional Requirement"}

\* a categorizing step that files a requirement only under a new ID
CategorizeStepDeduplicating(acc, d) ==
    IF d.doc_type = "Analysis"
    THEN [acc EXCEPT !.report.analyses = Append(@, d)]
    ELSE IF d.doc_type \in REQUIREMENT_TYPES
    THEN IF d.id \in acc.requirement_ids THEN acc
         ELSE [acc EXCEPT !.report.requirements = Append(@, d),
                          !.requirement_ids = @ \cup {d.id}]
    ELSE IF d.doc_type = "ADR"
    THEN [acc EXCEPT !.report.adrs = Append(@, d)]
    ELSE IF d.doc_type = "Task"
    THEN [acc EXCEPT !.report.tasks = Append(@, d)]
    ELSE acc

\* a categorizing step that knows functional requirements only
CategorizeStepFunctionalOnly(acc, d) ==
    IF d.doc_type = "Analysis"
    THEN [acc EXCEPT !.report.analyses = Append(@, d)]
    ELSE IF d.doc_type = "Functional Requirement"
    THEN [acc EXCEPT !.report.requirements = Append(@, d),
                     !.requirement_ids = @ \cup {d.id}]
    ELSE IF d.doc_type = "ADR"
    THEN [acc EXCEPT !.report.adrs = Append(@, d)]
    ELSE IF d.doc_type = "Task"
    THEN [acc EXCEPT !.report.tasks = Append(@, d)]
    ELSE acc

\* one iteration of the categorizing loop; acc holds the report and the
\* local requirement_ids
CategorizeStep(acc, d) ==
    IF d.doc_type = "Analysis"
    THEN [acc EXCEPT !.report.analyses = Append(@, d)]
    ELSE IF d.doc_type \in REQUIREMENT_TYPES
    THEN [acc EXCEPT !.report.requirements = Append(@, d),
                     !.requirement_ids = @ \cup {d.id}]
    ELSE IF d.doc_type = "ADR"
    THEN [acc EXCEPT !.report.adrs = Append(@, d)]
    ELSE IF d.doc_type = "Task"
    THEN [acc EXCEPT !.report.tasks = Append(@, d)]
    ELSE acc

RECURSIVE CategorizeLoop(_, _)
CategorizeLoop(docs, acc) ==
    IF docs = <<>> THEN acc
    ELSE CategorizeLoop(Tail(docs), CategorizeStep(acc, Head(docs)))

\* a lookup that also takes the IDs listed under "Related ADRs"
RequirementsLinksOrRelated(task) ==
    Get(task.links, "Requirements", <<>>)
        \o Get(task.links, "Related ADRs", <<>>)

\* task.links.get("Requirements", [])
RequirementsLinks(task) == Get(task.links, "Requirements", <<>>)

\* for task in report.tasks: implemented_requirements.update(req_links)
RECURSIVE ImplementedRequirements(_)
ImplementedRequirements(tasks) ==
    IF tasks = <<>> THEN {}
    ELSE Range(RequirementsLinks(Head(tasks)))
            \cup ImplementedRequirements(Tail(tasks))

\* a scan that looks into every link category of the tasks
RECURSIVE IsLinkedAnyCategory(_, _)
IsLinkedAnyCategory(req, tasks) ==
    IF tasks = <<>> THEN FALSE
    ELSE IF \E k \in DOMAIN Head(tasks).links : req.id \in Range(Head(tasks).links[k])
    THEN TRUE
    ELSE IsLinkedAnyCategory(req, Tail(tasks))

\* the per-task scan: is_linked after the inner loop
RECURSIVE IsLinked(_, _)
IsLinked(req, tasks) ==
    IF tasks = <<>> THEN FALSE
    ELSE IF req.id \in Range(RequirementsLinks(Head(tasks))) THEN TRUE
    ELSE IsLinked(req, Tail(tasks))

\* the scan is entered only for an ID outside the precomputed union
RECURSIVE OrphanRequirements(_, _, _)
OrphanRequirements(requirements, tasks, implemented) ==
    IF requirements = <<>> THEN <<>>
    ELSE LET req == Head(requirements)
             rest == OrphanRequirements(Tail(requirements), tasks, implemented)
         IN  IF req.id \notin implemented /\ ~IsLinked(req, tasks)
             THEN <<req>> \o rest
             ELSE rest

\* a test that takes only a missing category for "no requirements"
IsOrphanTaskMissingOnly(task) == "Requirements" \notin DOMAIN task.links

\* not task.links.get("Requirements"): None and [] are both falsy
IsOrphanTask(task) ==
    \/ "Requirements" \notin DOMAIN task.links
    \/ task.links["Requirements"] = <<>>

\* a loop that looks at the first task only
OrphanTasksFirstOnly(tasks) ==
    IF tasks = <<>> THEN <<>>
    ELSE IF IsOrphanTask(Head(tasks)) THEN <<Head(tasks)>>
    ELSE <<>>

RECURSIVE OrphanTasks(_)
OrphanTasks(tasks) ==
    IF tasks = <<>> THEN <<>>
    ELSE IF IsOrphanTask(Head(tasks)) THEN <<Head(tasks)>> \o OrphanTasks(Tail(tasks))
    ELSE OrphanTasks(Tail(tasks))

\* a coverage that counts every referenced ID, declared or not
CoveragePercentAllReferenced(requirements, implemented, requirement_ids) ==
    IF requirements # <<>>
    THEN Ratio(Cardinality(implemented) * 100, Len(requirements))
    ELSE Ratio(0, 1)

\* a coverage that is full when there is no requirement
CoveragePercentFullWhenEmpty(requirements, implemented, requirement_ids) ==
    IF requirements # <<>>
    THEN Ratio(Cardinality(implemented \cap requirement_ids) * 100,
               Len(requirements))
    ELSE Ratio(100, 1)

\* (implemented_count / len(report.requirements)) * 100, or the default 0.0
CoveragePercent(requirements, implemented, requirement_ids) ==
    IF requirements # <<>>
    THEN Ratio(Cardinality(implemented \cap requirement_ids) * 100,
               Len(requirements))
    ELSE Ratio(0, 1)

analyze_traceability(docs) ==
    LET acc == CategorizeLoop(docs,
                   [report |-> [TraceabilityReport EXCEPT
                                   !.total_documents = Len(docs)],
                    requirement_ids |-> {}])
        implemented_requirements == ImplementedRequirements(acc.report.tasks)
    IN  [acc.report EXCEPT
            !.orphan_requirements =
                OrphanRequirements(acc.report.requirements, acc.report.tasks,
                                   implemented_requirements),
            !.orphan_tasks = OrphanTasks(acc.report.tasks),
            !.coverage_percent =
                CoveragePercent(acc.report.requirements,
                                implemented_requirements, acc.requirement_ids)]

(***************************************************************************)
(* The document lists the analyzer is run on.  A list holds one Document   *)
(* per scanned path, so the Document at position i has path "doc<i>".      *)
(***************************************************************************)
AnalyzerDoc(id, doc_type, links) ==
    Document(id, doc_type, id, "", "Draft", links, <<>>)

Links1(k, ids) == Put(EmptyDict, k, ids)

RequirementDocs ==
    {AnalyzerDoc("FR-aaaaa", "Functional Requirement", EmptyDict),
     AnalyzerDoc("NFR-bbbbb", "Non-Functional Requirement", EmptyDict),
     AnalyzerDoc("FR-aaaaa", "Functional Requirement",
                 Links1("Implemented by Tasks", <<"T-ccccc">>))}

TaskRequirementLists ==
    {<<>>, <<"FR-aaaaa">>, <<"NFR-bbbbb">>, <<"FR-aaaaa", "NFR-bbbbb">>,
     <<"FR-zzzzz">>}

TaskDocs ==
    {AnalyzerDoc("T-ccccc", "Task", Links1("Requirements", ids)) :
        ids \in TaskRequirementLists}
    \cup {AnalyzerDoc("T-ccccc", "Task", EmptyDict),
          AnalyzerDoc("T-ccccc", "Task", Links1("Related ADRs", <<"FR-aaaaa">>))}

OtherDocs ==
    {AnalyzerDoc("AN-ddddd", "Analysis", EmptyDict),
     AnalyzerDoc("ADR-eeeee", "ADR", EmptyDict),
     AnalyzerDoc("T-ccccc", "Design", Links1("Requirements", <<"FR-aaaaa">>))}

AnalyzerDocs == RequirementDocs \cup TaskDocs \cup OtherDocs

AtPaths(docs) ==
    [i \in 1..Len(docs) |-> [docs[i] EXCEPT !.path = "doc" \o ToString(i)]]

DocumentLists == {AtPaths(docs) : docs \in SeqUpTo(AnalyzerDocs, MaxDocs)}

(***************************************************************************)
(* SpecAnalyze: analyze_traceability applied to one document list.         *)
(***************************************************************************)
InitAnalyze ==
    /\ pc = "analyze"
    /\ file = NoFile
    /\ doc = None
    /\ task_dir = NoTaskDir
    /\ design_doc = None
    /\ plan_doc = None
    /\ task_doc = None
    /\ documents \in DocumentLists
    /\ report = TraceabilityReport
    /\ MainIdle
    /\ CreateIdle

AnalyzeTraceability ==
    /\ pc = "analyze"
    /\ report' = analyze_traceability(documents)
    /\ pc' = "analyzed"
    /\ UNCHANGED <<file, doc, task_dir, design_doc, plan_doc, task_doc,
                   documents>>
    /\ UNCHANGED mainVars
    /\ UNCHANGED createVars

NextAnalyze == AnalyzeTraceability

SpecAnalyze == InitAnalyze /\ [][NextAnalyze]_vars

(***************************************************************************)
(* The scanner: scan_documents and scan_tasks.  The docs directory is the  *)
(* sequence of the entries below it, in the order the file system lists    *)
(* them; an entry names the directory it is in.  A directory without       *)
(* entries and a directory that does not exist are scanned alike.          *)
(***************************************************************************)
\* an entry: the directory it is in, its name, whether it is a directory,
\* what read_text gives for it, and what design.md and plan.md in it hold
DirEntry(dir, name, is_dir, content, design, plan) ==
    [dir |-> dir, name |-> name, is_dir |-> is_dir, content |-> content,
     design |-> design, plan |-> plan]

FileIn(dir, name, content) ==
    DirEntry(dir, name, FALSE, content, Unreadable, Unreadable)

\* read_text on a directory raises IsADirectoryError, an OSError
DirIn(dir, name, design, plan) ==
    DirEntry(dir, name, TRUE, Unreadable, design, plan)

\* the path of an entry, below docs/
PathOf(e) == e.dir \o "/" \o e.name.text

\* a pattern that asks for the suffix only
fnmatchAnyPrefix(name, prefix) ==
    /\ Len(name) >= 3
    /\ SubSeq(name, Len(name) - 2, Len(name)) = ".md"

\* a name matches the pattern "<prefix>*.md", letter case respected
fnmatch(name, prefix) ==
    /\ Len(name) >= Len(prefix) + 3
    /\ SubSeq(name, 1, Len(prefix)) = prefix
    /\ SubSeq(name, Len(name) - 2, Len(name)) = ".md"

\* list((docs_dir / dir).glob(prefix + "*.md")): entries directly in dir
glob(tree, dir, prefix) ==
    SelectSeq(tree, LAMBDA e : e.dir = dir /\ fnmatch(e.name.text, prefix))

\* (docs_dir / dir).iterdir()
iterdir(tree, dir) == SelectSeq(tree, LAMBDA e : e.dir = dir)

\* a loop that gives up at the first path that yields no Document
RECURSIVE add_parsed_documentsUntilFailure(_, _)
add_parsed_documentsUntilFailure(docs, paths) ==
    IF paths = <<>> THEN docs
    ELSE LET e == Head(paths)
             d == parse_document(File(e.name, e.content))
         IN  IF d = None THEN docs
             ELSE add_parsed_documentsUntilFailure(
                      Append(docs, [d[1] EXCEPT !.path = PathOf(e)]),
                      Tail(paths))

\* for path in paths: doc = parse_document(path); if doc: append
RECURSIVE add_parsed_documents(_, _)
add_parsed_documents(docs, paths) ==
    IF paths = <<>> THEN docs
    ELSE LET e == Head(paths)
             d == parse_document(File(e.name, e.content))
         IN  add_parsed_documents(
                 IF d = None THEN docs
                 ELSE Append(docs, [d[1] EXCEPT !.path = PathOf(e)]),
                 Tail(paths))

\* build_task_document(task_dir), with design.md and plan.md parsed
TaskDocumentOf(e) ==
    IF TaskEntryId(e) = None THEN None
    ELSE Some([build_task_document(e,
                   parse_document(File(DesignName, e.design)),
                   parse_document(File(PlanName, e.plan)))
               EXCEPT !.path = PathOf(e)])

RECURSIVE TaskLoop(_, _)
TaskLoop(task_documents, entries) ==
    IF entries = <<>> THEN task_documents
    ELSE LET task_doc_ == TaskDocumentOf(Head(entries))
         IN  TaskLoop(IF task_doc_ = None THEN task_documents
                      ELSE Append(task_documents, task_doc_[1]),
                      Tail(entries))

scan_tasks(tree) == TaskLoop(<<>>, iterdir(tree, "tasks"))

scan_documents(tree) ==
    LET analysis == add_parsed_documents(<<>>, glob(tree, "analysis", "AN-"))
        functional == add_parsed_documents(analysis,
                                           glob(tree, "requirements", "FR-"))
        requirements == add_parsed_documents(functional,
                                             glob(tree, "requirements", "NFR-"))
        adrs == add_parsed_documents(requirements, glob(tree, "adr", "ADR-"))
    IN  adrs \o scan_tasks(tree)

(***************************************************************************)
(* The renderers: format_report_text and format_report_markdown.  A        *)
(* rendering is the sequence of the lines that "\n".join puts together.    *)
(***************************************************************************)
\* f"{coverage_percent:.1f}": the quotient rounded to one decimal place
OneDecimal(c) ==
    LET tenths == (20 * c.num + c.den) \div (2 * c.den)
    IN  ToString(tenths \div 10) \o "." \o ToString(tenths % 10)

\* the backquote around an ID in the markdown rendering; a string of this
\* notation cannot hold that character, so the apostrophe stands for it
Tick == "'"

\* "=" * 60
Rule == "============================================================"

\* the lines of one gap category: heading, one line per document, blank
GapLines(heading, after_heading, orphans, item_front, item_middle) ==
    IF orphans = <<>> THEN <<>>
    ELSE <<heading>> \o after_heading
         \o [i \in 1..Len(orphans) |->
                item_front \o orphans[i].id \o item_middle \o orphans[i].title]
         \o <<"">>

\* a text rendering that never reports gaps
format_report_textAlwaysClear(r) ==
    <<Rule, "TDL Traceability Status Report", Rule, "", "## Summary",
      "  Total Documents: " \o ToString(r.total_documents),
      "  Analyses: " \o ToString(Len(r.analyses)),
      "  Requirements: " \o ToString(Len(r.requirements)),
      "  ADRs: " \o ToString(Len(r.adrs)),
      "  Tasks: " \o ToString(Len(r.tasks)),
      "  Coverage: " \o OneDecimal(r.coverage_percent) \o "%", "",
      "## No gaps detected!", "", Rule>>

format_report_text(r) ==
    <<Rule, "TDL Traceability Status Report", Rule, "", "## Summary",
      "  Total Documents: " \o ToString(r.total_documents),
      "  Analyses: " \o ToString(Len(r.analyses)),
      "  Requirements: " \o ToString(Len(r.requirements)),
      "  ADRs: " \o ToString(Len(r.adrs)),
      "  Tasks: " \o ToString(Len(r.tasks)),
      "  Coverage: " \o OneDecimal(r.coverage_percent) \o "%", "">>
    \o (IF r.orphan_requirements # <<>> \/ r.orphan_tasks # <<>>
        THEN <<"## Gaps Detected", "">>
             \o GapLines("### Requirements without Tasks:", <<>>,
                         r.orphan_requirements, "  - ", ": ")
             \o GapLines("### Tasks without Requirements:", <<>>,
                         r.orphan_tasks, "  - ", ": ")
        ELSE <<"## No gaps detected!", "">>)
    \o <<Rule>>

format_report_markdown(r) ==
    <<"# TDL Traceability Status Report", "", "## Summary", "",
      "| Metric | Count |", "|--------|-------|",
      "| Total Documents | " \o ToString(r.total_documents) \o " |",
      "| Analyses | " \o ToString(Len(r.analyses)) \o " |",
      "| Requirements | " \o ToString(Len(r.requirements)) \o " |",
      "| ADRs | " \o ToString(Len(r.adrs)) \o " |",
      "| Tasks | " \o ToString(Len(r.tasks)) \o " |",
      "| **Coverage** | **" \o OneDecimal(r.coverage_percent) \o "%** |", "">>
    \o (IF r.orphan_requirements # <<>> \/ r.orphan_tasks # <<>>
        THEN <<"## Gaps Detected", "">>
             \o GapLines("### Requirements without Tasks", <<"">>,
                         r.orphan_requirements, "- " \o Tick, Tick \o ": ")
             \o GapLines("### Tasks without Requirements", <<"">>,
                         r.orphan_tasks, "- " \o Tick, Tick \o ": ")
        ELSE <<"## Status: All Clear", "", "No traceability gaps detected.",
               "">>)

(***************************************************************************)
(* The docs directories main is run on.                                    *)
(***************************************************************************)
\* most entries below docs/
MaxCorpus == 2

\* a document as the create_* templates write it
Stub(title, id, type, links) ==
    Text(Layout(title,
                <<Field("ID", <<id>>), Field("Type", <<Word(type)>>),
                  Field("Status", <<Word("Draft")>>)>>,
                links))

\* a text without Metadata, as the README files of init_tdl_docs
Readme == Text(<<H1("Documents")>>)

ReadmeName == Name("README.md", "", <<Word("README.md")>>)

AnalysisName(id, slug) ==
    Name("AN-" \o id \o slug, "AN-", <<IdTok("AN", id), Word(slug)>>)

\* docs/analysis: a document, an undecodable file, a file without any ID,
\* a requirement put in the wrong directory, the README, an archived file
AnalysisEntries ==
    {FileIn("analysis", AnalysisName("ddddd", "-survey.md"),
            Stub("Survey", IdTok("AN", "ddddd"), "Analysis", <<>>)),
     FileIn("analysis", AnalysisName("eeeee", "-scan.md"), Unreadable),
     FileIn("analysis", Name("AN-tmp.md", "AN-", <<Word("AN-tmp.md")>>),
            Text(<<H1("Scratch"), H2("Metadata"),
                   Field("Type", <<Word("Analysis")>>)>>)),
     FileIn("analysis", RequirementName,
            Stub("Login", ReqA, "Functional Requirement", <<>>)),
     FileIn("analysis", ReadmeName, Readme),
     FileIn("analysis/archive", AnalysisName("fffff", "-old.md"),
            Stub("Old", IdTok("AN", "fffff"), "Analysis", <<>>))}

\* docs/requirements: two requirements, a file with the prefix and no ID
\* in its name whose Metadata ID is that of a task, the README
RequirementEntries ==
    {FileIn("requirements", RequirementName,
            Stub("Login", ReqA, "Functional Requirement", <<>>)),
     FileIn("requirements",
            Name("NFR-bbbbb-speed.md", "NFR-",
                 <<IdTok("NFR", "bbbbb"), Word("-speed.md")>>),
            Stub("Speed", IdTok("NFR", "bbbbb"), "Non-Functional Requirement",
                 <<>>)),
     FileIn("requirements", PrefixOnlyName,
            Stub("Api", TaskId, "Functional Requirement", <<>>)),
     FileIn("requirements", ReadmeName, Readme)}

AdrEntries ==
    {FileIn("adr",
            Name("ADR-eeeee-cache.md", "ADR-",
                 <<IdTok("ADR", "eeeee"), Word("-cache.md")>>),
            Stub("Cache", IdTok("ADR", "eeeee"), "ADR (Lite)", <<>>))}

\* docs/tasks: a task that implements FR-aaaaa; a task whose design.md has
\* no Metadata Type and whose plan.md links nothing; a task named and
\* linked in another letter case; a task whose link label is written in
\* lower case; the README; a directory that is no task; a plain file named
\* like a task
TaskEntries ==
    {DirIn("tasks", Name("T-ccccc-cache", "T-", <<TaskId, Word("-cache")>>),
           Stub("Cache", TaskId, "Design", <<Field("Requirements", <<ReqA>>)>>),
           Unreadable),
     DirIn("tasks",
           Name("T-ddddd-api", "T-", <<IdTok("T", "ddddd"), Word("-api")>>),
           Text(Layout("Api", <<Field("ID", <<IdTok("T", "ddddd")>>)>>,
                       <<Field("Requirements", <<ReqA>>)>>)),
           Stub("Api", IdTok("T", "ddddd"), "Implementation Plan",
                <<Field("Requirements", <<NA, IdTok("FR", "xxxxx")>>)>>)),
     DirIn("tasks",
           Name("t-EEEEE-case", "t-", <<IdTok("t", "EEEEE"), Word("-case")>>),
           Stub("Case", IdTok("t", "EEEEE"), "Design",
                <<Field("Requirements", <<IdTok("fr", "AAAAA")>>)>>),
           Unreadable),
     DirIn("tasks",
           Name("T-fffff-label", "T-", <<IdTok("T", "fffff"), Word("-label")>>),
           Stub("Label", IdTok("T", "fffff"), "Design",
                <<Field("requirements", <<ReqA>>)>>),
           Unreadable),
     FileIn("tasks", ReadmeName, Readme),
     DirIn("tasks", Name("archive", "", <<Word("archive")>>), Unreadable,
           Unreadable),
     FileIn("tasks",
            Name("T-ccccc-notes.md", "T-", <<TaskId, Word("-notes.md")>>),
            Stub("Notes", TaskId, "Design", <<>>))}

DocsEntries ==
    AnalysisEntries \cup RequirementEntries \cup AdrEntries \cup TaskEntries

\* the listings of a docs directory: no entry is listed twice
Trees ==
    {t \in SeqUpTo(DocsEntries, MaxCorpus) :
        \A i, j \in 1..Len(t) : t[i] = t[j] => i = j}

\* the command lines: --check or not, --format text or markdown
CommandLines == [check : BOOLEAN, format : {"text", "markdown"}]

(***************************************************************************)
(* Spec: main.  docs_dir is None when no docs/ directory is found.  The    *)
(* message on standard error and the --verbose listing are not part of     *)
(* the model.                                                              *)
(***************************************************************************)
Init ==
    /\ pc = "main"
    /\ file = NoFile
    /\ doc = None
    /\ task_dir = NoTaskDir
    /\ design_doc = None
    /\ plan_doc = None
    /\ task_doc = None
    /\ documents = <<>>
    /\ report = TraceabilityReport
    /\ docs_dir \in {None} \cup {Some(t) : t \in Trees}
    /\ args \in CommandLines
    /\ output = <<>>
    /\ exit_code = None
    /\ CreateIdle

\* if docs_dir is None or not docs_dir.exists(): sys.exit(1)
DocsNotFound ==
    /\ pc = "main"
    /\ docs_dir = None
    /\ exit_code' = Some(1)
    /\ pc' = "exit"
    /\ UNCHANGED <<file, doc, task_dir, design_doc, plan_doc, task_doc,
                   documents, report, docs_dir, args, output>>
    /\ UNCHANGED createVars

\* documents = scan_documents(docs_dir)
ScanDocuments ==
    /\ pc = "main"
    /\ docs_dir # None
    /\ documents' = scan_documents(docs_dir[1])
    /\ pc' = IF documents' = <<>> THEN "empty" ELSE "analyze"
    /\ UNCHANGED <<file, doc, task_dir, design_doc, plan_doc, task_doc,
                   report, docs_dir, args, output, exit_code>>
    /\ UNCHANGED createVars

\* if not documents: print("No TDL documents found."); sys.exit(0)
NoDocuments ==
    /\ pc = "empty"
    /\ output' = <<"No TDL documents found.">>
    /\ exit_code' = Some(0)
    /\ pc' = "exit"
    /\ UNCHANGED <<file, doc, task_dir, design_doc, plan_doc, task_doc,
                   documents, report, docs_dir, args>>
    /\ UNCHANGED createVars

\* print(format_report_markdown(report)) or print(format_report_text(report))
PrintReport ==
    /\ pc = "analyzed"
    /\ output' = IF args.format = "markdown" THEN format_report_markdown(report)
                 ELSE format_report_text(report)
    /\ pc' = "printed"
    /\ UNCHANGED <<file, doc, task_dir, design_doc, plan_doc, task_doc,
                   documents, report, docs_dir, args, exit_code>>
    /\ UNCHANGED createVars

\* an exit status that reports gaps also without --check
ExitStatusAlwaysChecking(check, r) ==
    IF r.orphan_requirements # <<>> \/ r.orphan_tasks # <<>> THEN 1 ELSE 0

\* if args.check: if orphan_requirements or orphan_tasks: sys.exit(1);
\* sys.exit(0)
ExitStatus(check, r) ==
    IF check /\ (r.orphan_requirements # <<>> \/ r.orphan_tasks # <<>>) THEN 1
    ELSE 0

Exit ==
    /\ pc = "printed"
    /\ exit_code' = Some(ExitStatus(args.check, report))
    /\ pc' = "exit"
    /\ UNCHANGED <<file, doc, task_dir, design_doc, plan_doc, task_doc,
                   documents, report, docs_dir, args, output>>
    /\ UNCHANGED createVars

Next ==
    \/ DocsNotFound
    \/ ScanDocuments
    \/ NoDocuments
    \/ AnalyzeTraceability
    \/ PrintReport
    \/ Exit

Spec == Init /\ [][Next]_vars

(***************************************************************************)
(* Properties of the analyzer, checked under SpecAnalyze.  They are stated *)
(* over the input list `documents`, not over the buckets of the report.    *)
(***************************************************************************)
Analyzed == pc = "analyzed"

RequirementDocuments ==
    SelectSeq(documents, LAMBDA d : d.doc_type \in REQUIREMENT_TYPES)

TaskDocuments == SelectSeq(documents, LAMBDA d : d.doc_type = "Task")

\* the union of the "Requirements" link lists of all Task documents
ReferencedIds ==
    UNION {Range(t.links["Requirements"]) :
              t \in {u \in Range(TaskDocuments) : "Requirements" \in DOMAIN u.links}}

RequirementIds == {r.id : r \in Range(RequirementDocuments)}

\* C1: orphan_requirements is exactly the list of the requirement documents
\* whose ID is in no task's "Requirements" links; a referenced requirement
\* is never in it; the membership test against the precomputed union and
\* the per-task scan agree on every requirement.
C1_OrphanRequirementsExact ==
    Analyzed =>
        /\ report.orphan_requirements =
              SelectSeq(RequirementDocuments, LAMBDA r : r.id \notin ReferencedIds)
        /\ \A r \in Range(report.orphan_requirements) : r.id \notin ReferencedIds
        /\ \A r \in Range(RequirementDocuments) :
              (r.id \in ImplementedRequirements(report.tasks))
                  <=> IsLinked(r, report.tasks)

\* one requirement is referenced by a task and absent from the orphans,
\* another is referenced by none and listed
C1_Witness ==
    /\ Analyzed
    /\ \E r \in Range(RequirementDocuments) :
          r.id \in ReferencedIds /\ r \notin Range(report.orphan_requirements)
    /\ \E r \in Range(RequirementDocuments) :
          r.id \notin ReferencedIds /\ r \in Range(report.orphan_requirements)

\* C2: orphan_tasks is exactly the list of the Task documents whose
\* "Requirements" category is absent or empty; a task with a non-empty
\* category is never in it, whether or not the IDs it lists are those of
\* requirement documents.
C2_OrphanTasksExact ==
    Analyzed =>
        /\ report.orphan_tasks =
              SelectSeq(TaskDocuments,
                        LAMBDA t : \/ "Requirements" \notin DOMAIN t.links
                                   \/ Len(t.links["Requirements"]) = 0)
        /\ \A t \in Range(TaskDocuments) :
              ("Requirements" \in DOMAIN t.links /\ Len(t.links["Requirements"]) > 0)
                  => t \notin Range(report.orphan_tasks)

\* a task with an empty category is listed; a task that lists only an ID
\* of no requirement document is not
C2_Witness ==
    /\ Analyzed
    /\ \E t \in Range(report.orphan_tasks) :
          "Requirements" \in DOMAIN t.links /\ t.links["Requirements"] = <<>>
    /\ \E t \in Range(TaskDocuments) :
          /\ "Requirements" \in DOMAIN t.links
          /\ t.links["Requirements"] # <<>>
          /\ Range(t.links["Requirements"]) \cap RequirementIds = {}
          /\ t \notin Range(report.orphan_tasks)

\* C3: coverage_percent is in [0, 100], and it is 0 exactly when there is
\* no requirement document or no requirement document's ID is referenced
\* by a task.
C3_CoverageRange ==
    Analyzed =>
        LET c == report.coverage_percent
        IN  /\ c.den > 0
            /\ 0 <= c.num
            /\ c.num <= 100 * c.den
            /\ (c.num = 0) <=>
                  \/ RequirementDocuments = <<>>
                  \/ RequirementIds \cap ReferencedIds = {}

\* requirements exist and a task references IDs, none of them declared:
\* the coverage is 0
C3_Witness ==
    /\ Analyzed
    /\ RequirementDocuments # <<>>
    /\ ReferencedIds # {}
    /\ RequirementIds \cap ReferencedIds = {}
    /\ report.coverage_percent.num = 0

\* C4: with requirements, coverage_percent is
\* 100 * |requirement_ids /\ task_referenced_ids| / |requirement_ids| over
\* the SET of requirement IDs; without, it is 0.
C4_CoverageOverIdSet ==
    Analyzed =>
        LET c == report.coverage_percent
        IN  IF RequirementDocuments # <<>>
            THEN c.num * Cardinality(RequirementIds) =
                    100 * Cardinality(RequirementIds \cap ReferencedIds) * c.den
            ELSE c.num = 0

\* the number of requirement documents of the input that carry this ID
Declared(id) ==
    Cardinality({i \in DOMAIN documents :
                    /\ documents[i].doc_type \in REQUIREMENT_TYPES
                    /\ documents[i].id = id})

\* the number of orphan requirements that carry this ID
Orphaned(id) ==
    Cardinality({i \in DOMAIN report.orphan_requirements :
                    report.orphan_requirements[i].id = id})

\* C5: requirement documents that share an ID are not deduplicated: each
\* is in the requirements bucket and counted; when no task references the
\* ID every one of them is an orphan requirement, otherwise none is.
C5_DuplicatesKept ==
    Analyzed =>
        /\ Len(report.requirements) =
              Cardinality({i \in DOMAIN documents :
                              documents[i].doc_type \in REQUIREMENT_TYPES})
        /\ \A i \in DOMAIN documents :
              documents[i].doc_type \in REQUIREMENT_TYPES =>
                  /\ documents[i] \in Range(report.requirements)
                  /\ IF documents[i].id \in ReferencedIds
                     THEN Orphaned(documents[i].id) = 0
                     ELSE /\ documents[i] \in Range(report.orphan_requirements)
                          /\ Orphaned(documents[i].id) = Declared(documents[i].id)

\* two requirement documents share an ID no task references, and both are
\* orphan requirements
C5_Witness ==
    /\ Analyzed
    /\ \E i, j \in DOMAIN documents :
          /\ i < j
          /\ documents[i].doc_type \in REQUIREMENT_TYPES
          /\ documents[j].doc_type \in REQUIREMENT_TYPES
          /\ documents[i].id = documents[j].id
          /\ documents[i].id \notin ReferencedIds
          /\ Len(report.requirements) >= 2
          /\ {documents[i], documents[j]} \subseteq Range(report.orphan_requirements)

OfType(types) == SelectSeq(documents, LAMBDA d : d.doc_type \in types)

\* the buckets that hold the document
BucketsOf(d) ==
    {b \in {"analyses", "requirements", "adrs", "tasks"} : d \in Range(report[b])}

\* C6: every document is in at most one bucket, the one of its type
\* (both requirement types share "requirements"); each bucket keeps the
\* input order and holds no document of another type.
C6_BucketsPartitionByType ==
    Analyzed =>
        /\ report.analyses = OfType({"Analysis"})
        /\ report.requirements = OfType(REQUIREMENT_TYPES)
        /\ report.adrs = OfType({"ADR"})
        /\ report.tasks = OfType({"Task"})
        /\ \A d \in Range(documents) : Cardinality(BucketsOf(d)) <= 1

\* a non-functional requirement precedes a functional one in the input and
\* in the bucket, and a document of no known type is in no bucket
C6_Witness ==
    /\ Analyzed
    /\ Len(report.requirements) = 2
    /\ report.requirements[1].doc_type = "Non-Functional Requirement"
    /\ report.requirements[2].doc_type = "Functional Requirement"
    /\ \E d \in Range(documents) : BucketsOf(d) = {}

(***************************************************************************)
(* Properties of the parser, checked under SpecParse.  They are stated     *)
(* over the lines of the file, not over the matches of the patterns.       *)
(***************************************************************************)
Parsed == pc = "parsed" /\ doc # None

\* the bolded-label lines written in the Links section of the file
LinksSectionLines ==
    LET body == SectionBody(file.content.lines, "Links")
    IN  IF body = None THEN <<>>
        ELSE SelectSeq(body[1], LAMBDA l : l.kind = "field")

BeginsWithNA(l) == l.value # <<>> /\ l.value[1] = NA

\* the normalized IDs written on a line
IdsOn(l) == NormIds(SelectSeq(l.value, LAMBDA k : k.t = "id"))

\* the IDs written under a label, over all its lines, in the order written
RECURSIVE IdsUnder(_, _)
IdsUnder(label, lines) ==
    IF lines = <<>> THEN <<>>
    ELSE IF strip(Head(lines).text) = label /\ ~BeginsWithNA(Head(lines))
    THEN IdsOn(Head(lines)) \o IdsUnder(label, Tail(lines))
    ELSE IdsUnder(label, Tail(lines))

\* C7: every stored ID list of a parsed Document is free of duplicates and
\* lists the IDs of its category in the order of their first occurrence in
\* the Links section, also when an ID is repeated within a line or a label
\* is on more than one line.
C7_LinksDeduplicatedInOrder ==
    Parsed =>
        \A k \in DOMAIN doc[1].links :
            /\ \A i, j \in DOMAIN doc[1].links[k] :
                  doc[1].links[k][i] = doc[1].links[k][j] => i = j
            /\ doc[1].links[k] = FirstOccurrences(IdsUnder(k, LinksSectionLines))

\* C8: a line of the Links section whose value begins with "N/A"
\* contributes no ID: every stored ID is written on a line of the section
\* whose value does not begin with "N/A".
C8_NotApplicableLinesContributeNothing ==
    Parsed =>
        \A k \in DOMAIN doc[1].links :
            \A id \in Range(doc[1].links[k]) :
                \E i \in DOMAIN LinksSectionLines :
                    /\ ~BeginsWithNA(LinksSectionLines[i])
                    /\ id \in Range(IdsOn(LinksSectionLines[i]))

\* the bolded-label lines written in the Metadata section of the file
MetadataSectionLines ==
    LET body == SectionBody(file.content.lines, "Metadata")
    IN  IF body = None THEN <<>>
        ELSE SelectSeq(body[1], LAMBDA l : l.kind = "field")

\* the values written on the lines of Metadata labelled `label`
WrittenUnder(label) ==
    LET ls == SelectSeq(MetadataSectionLines, LAMBDA l : strip(l.text) = label)
    IN  [i \in 1..Len(ls) |-> ls[i].value]

\* the first ID written in a value, normalized; None when it holds no ID
FirstIdIn(value) ==
    LET at == {i \in 1..Len(value) : value[i].t = "id"}
    IN  IF at = {} THEN None ELSE Some(NormId(value[Min(at)]))

\* the ID the Metadata ID line holds; None without such a line or such an ID
WrittenId ==
    LET values == WrittenUnder("ID")
    IN  IF values = <<>> THEN None ELSE FirstIdIn(values[Len(values)])

\* C12: the id of a Document is the ID found in the file name whenever the
\* name holds one, whatever the Metadata ID line says; only for a name
\* without an ID is it the ID found in the value of the Metadata ID line.
C12_IdFromNameFirst ==
    Parsed =>
        IF FirstIdIn(file.name.toks) # None
        THEN doc[1].id = FirstIdIn(file.name.toks)[1]
        ELSE WrittenId # None /\ doc[1].id = WrittenId[1]

\* a file whose name and whose Metadata ID line hold different IDs
C12_Witness ==
    /\ Parsed
    /\ FirstIdIn(file.name.toks) = Some("FR-aaaaa")
    /\ WrittenId = Some("T-ccccc")
    /\ doc[1].id = "FR-aaaaa"

\* the type a file-name prefix stands for, in either letter case
PrefixTypes ==
    [p \in {"AN-", "an-"} |-> "Analysis"]
    @@ [p \in {"FR-", "fr-"} |-> "Functional Requirement"]
    @@ [p \in {"NFR-", "nfr-"} |-> "Non-Functional Requirement"]
    @@ [p \in {"ADR-", "adr-"} |-> "ADR"]
    @@ [p \in {"T-", "t-"} |-> "Task"]

\* the value written on the Metadata Type line; "" without such a line
WrittenType ==
    LET values == WrittenUnder("Type")
    IN  IF values = <<>> THEN "" ELSE JoinText(values[Len(values)])

\* the written Type begins with "ADR" in some letter case
BeginsWithAdr(type) == type \in {"ADR", "ADR (Lite)", "adr"}

StatusLinesAnywhere ==
    LET ls == SelectSeq(file.content.lines,
                        LAMBDA l : l.kind = "field" /\ upper(l.text) = "STATUS")
    IN  [i \in 1..Len(ls) |-> ls[i].value]

\* the Status value the Metadata section holds; <<>> when it holds none
WrittenStatus ==
    LET values == WrittenUnder("Status")
    IN  IF values = <<>> THEN <<>> ELSE values[Len(values)]

\* C15: the status of a Document is the value of the Metadata Status line
\* when Metadata holds one; otherwise the value of the first "**Status**:"
\* line of the text; otherwise "Unknown"; without the blanks around it.
C15_StatusResolution ==
    Parsed =>
        doc[1].status =
            IF WrittenStatus # <<>> THEN strip(JoinText(WrittenStatus))
            ELSE IF StatusLinesAnywhere # <<>>
            THEN strip(JoinText(StatusLinesAnywhere[1]))
            ELSE "Unknown"

Scanned == pc # "main" /\ docs_dir # None

IsMarkdown(name) ==
    Len(name.text) >= 3
    /\ SubSeq(name.text, Len(name.text) - 2, Len(name.text)) = ".md"

\* the entries directly in `dir` named "<head>...md", in listing order
Listed(dir, head) ==
    SelectSeq(docs_dir[1],
              LAMBDA e : e.dir = dir /\ e.name.head = head /\ IsMarkdown(e.name))

\* the files the scan reads, in the order it reads them
ScannedFiles ==
    Listed("analysis", "AN-") \o Listed("requirements", "FR-")
        \o Listed("requirements", "NFR-") \o Listed("adr", "ADR-")

\* the task directories of docs/tasks, in listing order
ScannedTasks ==
    SelectSeq(docs_dir[1], LAMBDA e : e.dir = "tasks" /\ IsTaskEntry(e))

\* the text holds an ID line with an ID on it
HasIdLine(lines) ==
    \E i \in 1..Len(lines) :
        /\ lines[i].kind = "field"
        /\ lines[i].text = "ID"
        /\ FirstIdIn(lines[i].value) # None

\* the text holds a Type line with a value
HasTypeLine(lines) ==
    \E i \in 1..Len(lines) :
        /\ lines[i].kind = "field"
        /\ lines[i].text = "Type"
        /\ lines[i].value # <<>>

\* the file cannot be read, or neither name nor Metadata give it an ID, or
\* neither name nor Metadata give it a type
ParseFails(name, content) ==
    \/ ~content.readable
    \/ FirstIdIn(name.toks) = None /\ ~HasIdLine(content.lines)
    \/ name.head \notin DOMAIN PrefixTypes /\ ~HasTypeLine(content.lines)

PathsOf(docs) == [i \in 1..Len(docs) |-> docs[i].path]

EntryPaths(entries) == [i \in 1..Len(entries) |-> PathOf(entries[i])]

\* C14: a file that cannot be read or whose id or type stays undetermined
\* yields no Document, and the scan of a docs directory that holds such
\* files returns exactly the Documents of the other files, and a task for
\* every task directory whatever design.md and plan.md yield.
C14_ParseFailureIsSkipped ==
    Scanned =>
        /\ \A e \in Range(ScannedFiles) :
              ParseFails(e.name, e.content) <=>
                  parse_document(File(e.name, e.content)) = None
        /\ \A e \in Range(ScannedTasks) :
              /\ ParseFails(DesignName, e.design) <=>
                    parse_document(File(DesignName, e.design)) = None
              /\ ParseFails(PlanName, e.plan) <=>
                    parse_document(File(PlanName, e.plan)) = None
        /\ PathsOf(documents) =
              EntryPaths(SelectSeq(ScannedFiles,
                                   LAMBDA e : ~ParseFails(e.name, e.content)))
                  \o EntryPaths(ScannedTasks)

\* main has ended on a docs directory in which an unreadable file is listed
\* before a file that parses, and whose only Document is of the latter
C14_Witness ==
    /\ pc = "exit"
    /\ docs_dir # None
    /\ Len(ScannedFiles) = 2
    /\ ~ScannedFiles[1].content.readable
    /\ PathsOf(documents) = <<PathOf(ScannedFiles[2])>>
    /\ exit_code = Some(0)

\* the entry is in one of the places the scanner documents: a file
\* directly in docs/analysis named AN-*.md, in docs/requirements named
\* FR-*.md or NFR-*.md, in docs/adr named ADR-*.md, or a subdirectory of
\* docs/tasks named T-*
InDocumentedPlace(e) ==
    \/ e.dir = "analysis" /\ e.name.head = "AN-" /\ IsMarkdown(e.name)
    \/ e.dir = "requirements" /\ e.name.head \in {"FR-", "NFR-"}
           /\ IsMarkdown(e.name)
    \/ e.dir = "adr" /\ e.name.head = "ADR-" /\ IsMarkdown(e.name)
    \/ e.dir = "tasks" /\ e.is_dir /\ e.name.head \in {"T-", "t-"}

C17_EmptyCorpusZeroReport ==
    (Scanned /\ documents = <<>>) =>
        LET r == analyze_traceability(documents)
        IN  /\ r.total_documents = 0
            /\ Len(r.analyses) = 0
            /\ Len(r.requirements) = 0
            /\ Len(r.adrs) = 0
            /\ Len(r.tasks) = 0
            /\ r.orphan_requirements = <<>>
            /\ r.orphan_tasks = <<>>
            /\ r.coverage_percent.num = 0
            /\ OneDecimal(r.coverage_percent) = "0.0"
            /\ pc = "exit" => exit_code = Some(0)

\* main has ended on a docs directory whose entries yield no Document
C17_Witness ==
    /\ pc = "exit"
    /\ docs_dir # None
    /\ docs_dir[1] # <<>>
    /\ documents = <<>>
    /\ output = <<"No TDL documents found.">>
    /\ exit_code = Some(0)

\* the report has a gap
HasGaps(r) == r.orphan_requirements # <<>> \/ r.orphan_tasks # <<>>

HasLine(out, line) == \E i \in 1..Len(out) : out[i] = line

\* the lines listed under a heading: those after the heading and the blank
\* lines that follow it, up to the next blank line; <<>> without the heading
ItemsUnder(out, heading) ==
    LET at == {i \in 1..Len(out) : out[i] = heading}
    IN  IF at = {} THEN <<>>
        ELSE LET first == Min({i \in (Min(at) + 1)..(Len(out) + 1) :
                                  i = Len(out) + 1 \/ out[i] # ""})
                 last == Min({i \in first..(Len(out) + 1) :
                                 i = Len(out) + 1 \/ out[i] = ""})
             IN  SubSeq(out, first, last - 1)

\* the lines of a rendering that list a document: they begin with `front`
ItemLines(out, front) ==
    SelectSeq(out, LAMBDA l : Len(l) >= Len(front)
                              /\ SubSeq(l, 1, Len(front)) = front)

\* the lines that list the documents of an orphan list, in its order
ItemsOf(orphans, front, middle) ==
    [i \in 1..Len(orphans) |->
        front \o orphans[i].id \o middle \o orphans[i].title]

\* C18: the text and the markdown rendering of a report agree on its gap
\* state: each holds the "Gaps Detected" heading exactly when an orphan
\* list is non-empty and the no-gaps line exactly when both are empty; in
\* the gap block the orphan requirements stand under the requirements
\* heading and the orphan tasks under the tasks heading, each document
\* once, in the order of the report, and nothing else is listed.
C18_RenderersAgreeOnGaps ==
    (pc \in {"printed", "exit"} /\ documents # <<>>) =>
        LET text == format_report_text(report)
            markdown == format_report_markdown(report)
            reqs == report.orphan_requirements
            tasks == report.orphan_tasks
        IN  /\ output = IF args.format = "markdown" THEN markdown ELSE text
            /\ HasLine(text, "## Gaps Detected") <=> HasGaps(report)
            /\ HasLine(markdown, "## Gaps Detected") <=> HasGaps(report)
            /\ HasLine(text, "## No gaps detected!") <=> ~HasGaps(report)
            /\ HasLine(markdown, "## Status: All Clear") <=> ~HasGaps(report)
            /\ ItemsUnder(text, "### Requirements without Tasks:") =
                  ItemsOf(reqs, "  - ", ": ")
            /\ ItemsUnder(text, "### Tasks without Requirements:") =
                  ItemsOf(tasks, "  - ", ": ")
            /\ ItemsUnder(markdown, "### Requirements without Tasks") =
                  ItemsOf(reqs, "- " \o Tick, Tick \o ": ")
            /\ ItemsUnder(markdown, "### Tasks without Requirements") =
                  ItemsOf(tasks, "- " \o Tick, Tick \o ": ")
            /\ Len(ItemLines(text, "  - ")) = Len(reqs) + Len(tasks)
            /\ Len(ItemLines(markdown, "- " \o Tick)) = Len(reqs) + Len(tasks)

\* a report with an orphan requirement and an orphan task has been printed
C18_Witness ==
    /\ pc = "exit"
    /\ args.format = "markdown"
    /\ Len(report.orphan_requirements) = 1
    /\ Len(report.orphan_tasks) = 1
    /\ HasLine(output, "## Gaps Detected")
    /\ HasLine(output, "- " \o Tick \o "T-ddddd" \o Tick \o ": T-ddddd-api")

\* C19: main ends with a non-zero status exactly when no docs directory is
\* found, or --check is given and an orphan list of the report is
\* non-empty; without --check the status is 0 whatever the gaps; with no
\* document the status is 0 also under --check.
C19_ExitStatus ==
    (pc = "exit") =>
        /\ exit_code \in {Some(0), Some(1)}
        /\ (exit_code # Some(0)) <=>
              \/ docs_dir = None
              \/ args.check /\ HasGaps(report)
        /\ (docs_dir # None /\ ~args.check) => exit_code = Some(0)
        /\ (docs_dir # None /\ documents = <<>>) => exit_code = Some(0)

\* main has ended with status 1 under --check on a report with a gap
C19_Witness ==
    /\ pc = "exit"
    /\ docs_dir # None
    /\ args.check
    /\ report.orphan_requirements # <<>>
    /\ HasLine(output, "## Gaps Detected")
    /\ exit_code = Some(1)

(***************************************************************************)
(* The create_* commands (create_analysis.py, create_requirement.py,       *)
(* create_adr.py, create_task.py) and the ID generator (tdl_new_id.py).    *)
(* disk holds the entries below docs/ apart from the four type             *)
(* directories, whose names match no pattern of id_exists; by is the       *)
(* command that wrote the entry, 0 for an entry that was there before.     *)
(***************************************************************************)
\* one attempt more than MAX_RETRIES
MAX_RETRIESPlusOne == 10 + 1

\* MAX_RETRIES = 10
MAX_RETRIES == 10

\* generate_base36_id(): the IDs the random generator draws in the model
Base36Ids == {"aaaaa", "bbbbb"}

DiskEntry(dir, name, by) == [dir |-> dir, name |-> name, by |-> by]

DiskPath(e) == e.dir \o "/" \o e.name

\* sub occurs in name
Contains(name, sub) ==
    \E i \in 1..(Len(name) - Len(sub) + 1) :
        SubSeq(name, i, i + Len(sub) - 1) = sub

\* name ends with sub
EndsWith(name, sub) ==
    /\ Len(name) >= Len(sub)
    /\ SubSeq(name, Len(name) - Len(sub) + 1, Len(name)) = sub

\* id_exists: some name below docs/ matches "*-<id>-*", "*-<id>.*" or
\* "*-<id>" (rglob, every depth, files and directories)
id_exists(id_str, entries) ==
    \E e \in entries :
        \/ Contains(e.name, "-" \o id_str \o "-")
        \/ Contains(e.name, "-" \o id_str \o ".")
        \/ EndsWith(e.name, "-" \o id_str)

\* the scripts: the type directory and the prefix of the names they create
Scripts ==
    { [script |-> "create_analysis", dir |-> "analysis", prefix |-> "AN"],
      [script |-> "create_requirement", dir |-> "requirements",
       prefix |-> "FR"],
      [script |-> "create_requirement", dir |-> "requirements",
       prefix |-> "NFR"],
      [script |-> "create_adr", dir |-> "adr", prefix |-> "ADR"],
      [script |-> "create_task", dir |-> "tasks", prefix |-> "T"] }

\* the slugs of the titles given on the command lines
TitleSlugs == {"login", "cache"}

\* create_filename: "<prefix>-<id>-<slug>.md"; create_task names the task
\* directory "T-<id>-<slug>"
create_filename(c, id) ==
    IF c.script = "create_task" THEN "T-" \o id \o "-" \o c.slug
    ELSE c.prefix \o "-" \o id \o "-" \o c.slug \o ".md"

\* a command before its first step
NewCommand(k, slug) ==
    [script |-> k.script, dir |-> k.dir, prefix |-> k.prefix, slug |-> slug,
     pc |-> "generate", attempt |-> 0, new_id |-> None, exit_code |-> None]

\* the two commands run at the same time
Procs == {1, 2}

\* docs/ before the commands start: empty, one requirement, or entries
\* that hold every ID the generator draws
ExistingDisks ==
    { {},
      {DiskEntry("requirements", "FR-aaaaa-login.md", 0)},
      {DiskEntry("requirements", "FR-aaaaa-login.md", 0),
       DiskEntry("tasks", "T-bbbbb-cache", 0),
       DiskEntry("tasks/T-bbbbb-cache", "design.md", 0),
       DiskEntry("tasks/T-bbbbb-cache", "plan.md", 0)} }

\* filepath.exists() / task_dir.exists()
PathExists(entries, path) == \E e \in entries : DiskPath(e) = path

\* write_text / mkdir: the entry at the path is the one written last
WriteEntry(entries, e) ==
    {x \in entries : DiskPath(x) # DiskPath(e)} \cup {e}

idleVars == <<pc, file, doc, task_dir, design_doc, plan_doc, task_doc,
              documents, report, docs_dir, args, output, exit_code>>

(***************************************************************************)
(* SpecCreate: two create_* commands run at the same time against one      *)
(* docs directory.  Each step is one pass of the loop of                   *)
(* generate_unique_id or one access to the file system; the mkdir          *)
(* (exist_ok=True) of the type directory that opens every command changes  *)
(* no entry of disk.                                                       *)
(***************************************************************************)
InitCreate ==
    /\ pc = "create"
    /\ file = NoFile
    /\ doc = None
    /\ task_dir = NoTaskDir
    /\ design_doc = None
    /\ plan_doc = None
    /\ task_doc = None
    /\ documents = <<>>
    /\ report = TraceabilityReport
    /\ MainIdle
    /\ disk \in ExistingDisks
    /\ command \in [Procs -> {NewCommand(k, s) : k \in Scripts,
                                                   s \in TitleSlugs}]

\* one pass of the loop of generate_unique_id: return new_id when
\* id_exists is false; after MAX_RETRIES collisions RuntimeError, which
\* the command turns into sys.exit(1)
GenerateUniqueId(p) ==
    /\ command[p].pc = "generate"
    /\ command[p].attempt < MAX_RETRIES
    /\ \E new_id \in Base36Ids :
         command' = [command EXCEPT ![p] =
            IF ~id_exists(new_id, disk)
            THEN [@ EXCEPT !.new_id = Some(new_id), !.pc = "exists"]
            ELSE IF @.attempt + 1 = MAX_RETRIES
            THEN [@ EXCEPT !.attempt = @ + 1, !.pc = "exit",
                           !.exit_code = Some(1)]
            ELSE [@ EXCEPT !.attempt = @ + 1]]
    /\ UNCHANGED disk
    /\ UNCHANGED idleVars

\* if filepath.exists(): sys.exit(1)   (task_dir.exists() in create_task)
CheckExists(p) ==
    /\ command[p].pc = "exists"
    /\ LET c == command[p]
           path == c.dir \o "/" \o create_filename(c, c.new_id[1])
       IN  command' = [command EXCEPT ![p] =
              IF PathExists(disk, path)
              THEN [@ EXCEPT !.pc = "exit", !.exit_code = Some(1)]
              ELSE [@ EXCEPT !.pc = IF c.script = "create_task" THEN "mkdir"
                                    ELSE "write"]]
    /\ UNCHANGED disk
    /\ UNCHANGED idleVars

\* filepath.write_text(content): creates the file or replaces its content
WriteText(p) ==
    /\ command[p].pc = "write"
    /\ LET c == command[p]
       IN  disk' = WriteEntry(disk,
                      DiskEntry(c.dir, create_filename(c, c.new_id[1]), p))
    /\ command' = [command EXCEPT ![p].pc = "exit",
                                  ![p].exit_code = Some(0)]
    /\ UNCHANGED idleVars

\* task_dir.mkdir(parents=True): FileExistsError, which nothing catches,
\* when the directory is there
MakeTaskDir(p) ==
    /\ command[p].pc = "mkdir"
    /\ LET c == command[p]
           name == create_filename(c, c.new_id[1])
       IN  IF PathExists(disk, c.dir \o "/" \o name)
           THEN /\ command' = [command EXCEPT ![p].pc = "exit",
                                              ![p].exit_code = Some(1)]
                /\ UNCHANGED disk
           ELSE /\ disk' = WriteEntry(disk, DiskEntry(c.dir, name, p))
                /\ command' = [command EXCEPT ![p].pc = "design"]
    /\ UNCHANGED idleVars

\* (task_dir / "design.md").write_text(design_content)
WriteDesign(p) ==
    /\ command[p].pc = "design"
    /\ LET c == command[p]
           name == create_filename(c, c.new_id[1])
       IN  disk' = WriteEntry(disk,
                      DiskEntry(c.dir \o "/" \o name, "design.md", p))
    /\ command' = [command EXCEPT ![p].pc = "plan"]
    /\ UNCHANGED idleVars

\* (task_dir / "plan.md").write_text(plan_content)
WritePlan(p) ==
    /\ command[p].pc = "plan"
    /\ LET c == command[p]
           name == create_filename(c, c.new_id[1])
       IN  disk' = WriteEntry(disk,
                      DiskEntry(c.dir \o "/" \o name, "plan.md", p))
    /\ command' = [command EXCEPT ![p].pc = "exit",
                                  ![p].exit_code = Some(0)]
    /\ UNCHANGED idleVars

NextCreate ==
    \E p \in Procs :
        \/ GenerateUniqueId(p)
        \/ CheckExists(p)
        \/ WriteText(p)
        \/ MakeTaskDir(p)
        \/ WriteDesign(p)
        \/ WritePlan(p)

SpecCreate == InitCreate /\ [][NextCreate]_vars

(***************************************************************************)
(* Properties of the ID generator and the create_* commands.               *)
(***************************************************************************)
\* command p wrote an entry of disk
Wrote(p, entries) == \E e \in entries : e.by = p

\* C21: generate_unique_id makes at most 10 attempts; the ID it returns is
\* one that id_exists reported as absent at that attempt, returned at once;
\* a collision only counts the attempt; the 10th collision ends the command
\* with exit status 1, and such a command has written no entry.
C21_AtMostTenAttempts ==
    /\ [](\A p \in Procs :
            /\ command[p].attempt <= 10
            /\ command[p].attempt = 10 =>
                  /\ command[p].pc = "exit"
                  /\ command[p].exit_code = Some(1)
                  /\ command[p].new_id = None
                  /\ ~Wrote(p, disk))
    /\ [][\A p \in Procs :
            (command[p].pc = "generate" /\ command'[p] # command[p]) =>
               \/ /\ command'[p].pc = "exists"
                  /\ command'[p].new_id # None
                  /\ ~id_exists(command'[p].new_id[1], disk)
                  /\ command'[p].attempt = command[p].attempt
               \/ /\ command'[p].new_id = None
                  /\ command'[p].attempt = command[p].attempt + 1
                  /\ \E id \in Base36Ids : id_exists(id, disk)
                  /\ command'[p].pc = "exit" <=> command'[p].attempt = 10
                  /\ disk' = disk]_vars

\* one command gave up after 10 collisions and wrote nothing, the other
\* one returned an ID after a collision and created its file
C21_Witness ==
    \E p, q \in Procs :
        /\ command[p].attempt = 10
        /\ command[p].exit_code = Some(1)
        /\ ~Wrote(p, disk)
        /\ command[q].attempt > 0
        /\ command[q].new_id # None
        /\ command[q].exit_code = Some(0)
        /\ Wrote(q, disk)

\* C22: under every interleaving of two commands, the commands that end
\* with status 0 used different IDs, and no step replaces an entry that
\* the other command wrote.
C22_UniqueIdsUnderParallelUse ==
    /\ [](\A p, q \in Procs :
            (p # q /\ command[p].exit_code = Some(0)
                   /\ command[q].exit_code = Some(0)) =>
               command[p].new_id # command[q].new_id)
    /\ [][\A e \in disk :
            e.by \in Procs =>
               \E x \in disk' : DiskPath(x) = DiskPath(e) /\ x.by = e.by]_vars

(***************************************************************************)
(* Properties of the section bounds, the ID forms and the link labels.     *)
(***************************************************************************)
\* the lines from the heading "## name" to the next "## " heading or the
\* end of the text, both excluded
LinesOfSection(lines, name) ==
    LET i == HeadingIndex(lines, name)
        ends == {k \in (i + 1)..Len(lines) : lines[k].kind = "h2"}
        last == IF ends = {} THEN Len(lines) ELSE Min(ends) - 1
    IN  IF i = 0 THEN <<>> ELSE SubSeq(lines, i + 1, last)

\* the labels of the bolded-label lines among lines
FieldLabels(lines) ==
    {strip(lines[i].text) : i \in {k \in 1..Len(lines) :
                                      lines[k].kind = "field"}}

\* a bolded-label line that names IDs and does not begin with N/A
NamesIds(l) ==
    /\ l.kind = "field"
    /\ l.value # <<>>
    /\ ~startswith(TokText(l.value[1]), "N/A")
    /\ findall(l.value) # <<>>

\* C23: the metadata keys are the labels of the bolded-label lines between
\* "## Metadata" and the next "## " heading (or the end of the text); the
\* link categories are labels of bolded-label lines between "## Links" and
\* the next "## " heading, and every such line that names IDs gives its
\* label as a category.
C23_SectionsEndAtNextHeading ==
    (pc = "parsed" /\ file.content.readable) =>
        LET lines == file.content.lines
            meta == LinesOfSection(lines, "Metadata")
            links == LinesOfSection(lines, "Links")
        IN  /\ DOMAIN parse_metadata_section(lines) = FieldLabels(meta)
            /\ DOMAIN parse_links_section(lines) \subseteq FieldLabels(links)
            /\ \A i \in 1..Len(links) :
                  NamesIds(links[i]) =>
                     strip(links[i].text) \in DOMAIN parse_links_section(lines)

\* the IDs in uppercase-prefix / lowercase-suffix form
NormalForms ==
    {p \o "-" \o x : p \in {"AN", "FR", "NFR", "ADR", "T"},
                     x \in {"aaaaa", "bbbbb", "ccccc", "ddddd", "eeeee",
                            "fffff", "xxxxx"}}

\* the IDs that the Requirements lines of a text spell, as written; lines
\* that begin with N/A left out
SpelledRequirements(content) ==
    IF ~content.readable THEN {}
    ELSE UNION {Range(findall(l.value)) :
                   l \in {x \in Range(content.lines) :
                             /\ x.kind = "field"
                             /\ x.text = "Requirements"
                             /\ x.value # <<>>
                             /\ x.value[1] # NA}}

\* the IDs that a task directory spells in the Requirements lines of the
\* files of it that yield a Document
SpelledByTask(e) ==
    (IF ParseFails(DesignName, e.design) THEN {}
     ELSE SpelledRequirements(e.design))
    \cup (IF ParseFails(PlanName, e.plan) THEN {}
          ELSE SpelledRequirements(e.plan))

\* C24: the id of every Document of the scan and every ID in its links is
\* in uppercase-prefix / lowercase-suffix form; a requirement whose ID a
\* task spells on a Requirements line, in whatever letter case, is no
\* orphan requirement, and that task is no orphan task.
C24_StoredIdsAreNormalized ==
    /\ \A d \in Range(documents) :
          /\ d.id \in NormalForms
          /\ \A k \in DOMAIN d.links : Range(d.links[k]) \subseteq NormalForms
    /\ (pc \in {"analyzed", "printed", "exit"} /\ documents # <<>>) =>
          \A e \in Range(ScannedTasks), r \in Range(report.requirements) :
              (\E k \in SpelledByTask(e) :
                   upper(k.pre) \o "-" \o lower(k.suf) = r.id) =>
                 /\ r \notin Range(report.orphan_requirements)
                 /\ \A t \in Range(report.orphan_tasks) : t.path # PathOf(e)

\* main has ended on FR-aaaaa-login.md and the task t-EEEEE-case, whose
\* Requirements line spells fr-AAAAA: the task is T-eeeee, no orphan is
\* reported and coverage is 100%
C24_Witness ==
    /\ pc = "exit"
    /\ Len(report.requirements) = 1
    /\ report.requirements[1].id = "FR-aaaaa"
    /\ Len(report.tasks) = 1
    /\ report.tasks[1].id = "T-eeeee"
    /\ report.tasks[1].title = "t-EEEEE-case"
    /\ Get(report.tasks[1].links, "Requirements", <<>>) = <<"FR-aaaaa">>
    /\ report.orphan_requirements = <<>>
    /\ report.orphan_tasks = <<>>
    /\ report.coverage_percent = Ratio(100, 1)

\* the spellings of the label Requirements that differ in letter case only
RequirementsSpellings == {"Requirements", "requirements"}

\* the IDs that a task directory spells on lines labelled Requirements in
\* any of these spellings, in the files of it that yield a Document
SpelledUnderAnySpelling(e) ==
    LET ids(content) ==
            UNION {Range(findall(l.value)) :
                      l \in {x \in Range(content.lines) :
                                /\ x.kind = "field"
                                /\ x.text \in RequirementsSpellings
                                /\ x.value # <<>>
                                /\ x.value[1] # NA}}
    IN  (IF ParseFails(DesignName, e.design) THEN {} ELSE ids(e.design))
        \cup (IF ParseFails(PlanName, e.plan) THEN {} ELSE ids(e.plan))

\* C25: a task that lists a requirement's ID under a label that is
\* "Requirements" up to letter case is no orphan task, and that requirement
\* is no orphan requirement.
C25_LabelCaseIsNormalizedAway ==
    (pc \in {"analyzed", "printed", "exit"} /\ documents # <<>>) =>
        \A e \in Range(ScannedTasks), r \in Range(report.requirements) :
            (\E k \in SpelledUnderAnySpelling(e) :
                 upper(k.pre) \o "-" \o lower(k.suf) = r.id) =>
               /\ r \notin Range(report.orphan_requirements)
               /\ \A t \in Range(report.orphan_tasks) : t.path # PathOf(e)

\* the document with every link erased but the category "Requirements" of
\* a Task
RequirementsOfTasksOnly(d) ==
    [d EXCEPT !.links =
        IF d.doc_type = "Task" /\ "Requirements" \in DOMAIN d.links
        THEN Links1("Requirements", d.links["Requirements"])
        ELSE EmptyDict]

\* C26: the orphan requirements, the orphan tasks and the coverage are
\* those of the same documents with every link erased but the category
\* "Requirements" of the Task documents: links on a requirement, on a
\* document of another type, or under another category of a task change
\* none of them.
C26_OnlyRequirementsOfTasksCount ==
    (pc = "analyzed") =>
        LET erased == [i \in 1..Len(documents) |->
                          RequirementsOfTasksOnly(documents[i])]
            r == analyze_traceability(erased)
        IN  /\ PathsOf(report.orphan_requirements) =
                  PathsOf(r.orphan_requirements)
            /\ PathsOf(report.orphan_tasks) = PathsOf(r.orphan_tasks)
            /\ report.coverage_percent = r.coverage_percent

\* a requirement that names its task under "Implemented by Tasks" and a
\* task that names the requirement under "Related ADRs" are both orphans,
\* at coverage 0
C26_Witness ==
    /\ pc = "analyzed"
    /\ Len(report.requirements) = 1
    /\ Len(report.tasks) = 1
    /\ Get(report.requirements[1].links, "Implemented by Tasks", <<>>) =
          <<report.tasks[1].id>>
    /\ Get(report.tasks[1].links, "Related ADRs", <<>>) =
          <<report.requirements[1].id>>
    /\ Len(report.orphan_requirements) = 1
    /\ Len(report.orphan_tasks) = 1
    /\ report.coverage_percent = Ratio(0, 1)

\* C27: when the report holds a requirement, no requirement is an orphan
\* exactly when coverage is 100, and the number of requirement documents
\* that are no orphans is coverage_percent / 100 times the number of
\* requirement documents.
C27_CoverageMatchesOrphans ==
    (pc = "analyzed" /\ report.requirements # <<>>) =>
        LET c == report.coverage_percent
            covered == Len(report.requirements) - Len(report.orphan_requirements)
        IN  /\ report.orphan_requirements = <<>> <=> c.num = 100 * c.den
            /\ covered * 100 * c.den = c.num * Len(report.requirements)

\* the IDs that the Links section of a text lists under "Requirements"
ListedRequirements(content) ==
    IF ~content.readable THEN {}
    ELSE Range(Get(parse_links_section(content.lines), "Requirements", <<>>))

\* C28: the task document's "Requirements" links contain every ID that
\* the Links section of a readable design.md or plan.md of the task lists
\* under "Requirements", whether or not that file has a Metadata ID and
\* Type.
C28_EveryLinksSectionReachesTheTask ==
    (pc = "built" /\ task_doc # None) =>
        ListedRequirements(task_dir.design) \cup ListedRequirements(task_dir.plan)
            \subseteq Range(Get(task_doc[1].links, "Requirements", <<>>))

\* the type that the prefix of a stored ID stands for
TypeOfId(id) ==
    CASE SubSeq(id, 1, 3) = "AN-" -> "Analysis"
      [] SubSeq(id, 1, 3) = "FR-" -> "Functional Requirement"
      [] SubSeq(id, 1, 4) = "NFR-" -> "Non-Functional Requirement"
      [] SubSeq(id, 1, 4) = "ADR-" -> "ADR"
      [] SubSeq(id, 1, 2) = "T-" -> "Task"
      [] OTHER -> "Unknown"

\* C29: the type of every Document of the scan is the type that the
\* prefix of its id stands for.
C29_IdPrefixAgreesWithType ==
    Scanned => \A d \in Range(documents) : d.doc_type = TypeOfId(d.id)

\* the orders in which the elements of a sequence can be listed
Reorderings(s) ==
    {[i \in 1..Len(s) |-> s[f[i]]] : f \in Permutations(1..Len(s))}

\* what the claim compares: the size of each bucket, the number of
\* documents, the coverage and the orphans as sets
OrderFreePart(r) ==
    [analyses |-> Len(r.analyses), requirements |-> Len(r.requirements),
     adrs |-> Len(r.adrs), tasks |-> Len(r.tasks),
     total_documents |-> r.total_documents,
     coverage_percent |-> r.coverage_percent,
     orphan_requirements |-> Range(r.orphan_requirements),
     orphan_tasks |-> Range(r.orphan_tasks)]

\* C30: the bucket sizes, total_documents, coverage_percent and the sets
\* of orphan requirements and orphan tasks of the report are those of the
\* scan of the docs directory listed in any other order, and those of the
\* scanned document list in any other order.
C30_ReportIsOrderIndependent ==
    (pc \in {"analyzed", "printed", "exit"} /\ documents # <<>>) =>
        /\ \A t \in Reorderings(docs_dir[1]) :
              OrderFreePart(analyze_traceability(scan_documents(t))) =
                  OrderFreePart(report)
        /\ \A d \in Reorderings(documents) :
              OrderFreePart(analyze_traceability(d)) = OrderFreePart(report)

\* main has ended on a docs directory that lists a task without
\* requirements before a task with one, and reports the first as the only
\* orphan task
C30_Witness ==
    /\ pc = "exit"
    /\ docs_dir # None
    /\ Len(docs_dir[1]) = 2
    /\ Len(report.tasks) = 2
    /\ IsOrphanTask(report.tasks[1])
    /\ ~IsOrphanTask(report.tasks[2])
    /\ report.orphan_tasks = <<report.tasks[1]>>
    /\ report.total_documents = 2

====
